---- MODULE Spec2Model ----
(***************************************************************************)
(* The bounded traversal engine of gitingest (query_ingestion.py): the     *)
(* recursive walk _scan_directory / _process_item / _process_symlink /     *)
(* _process_file over a filesystem with symlinks, pattern filters and the  *)
(* depth / file-count / total-size ceilings, and the ordering of children. *)
(*                                                                         *)
(* Paths are sequences of names from the filesystem's top, so that         *)
(* <<"repo", "lib">> is /repo/lib.  The recursion of _scan_directory is an *)
(* explicit stack of frames; one step processes one directory entry, or    *)
(* returns from one call.                                                  *)
(***************************************************************************)
EXTENDS Integers, Sequences, FiniteSets, TLC

\* The ceilings of query_ingestion.py, scaled down so that a small tree hits them.
MAX_FILE_SIZE == 2
MAX_DIRECTORY_DEPTH == 2
MAX_FILES == 3
MAX_TOTAL_SIZE_BYTES == 4
\* config.py, in seconds of the model's clock
CLONE_TIMEOUT == 2
PROCESSING_TIMEOUT == 2

\* Largest st_size of the file whose size the initial state chooses.
MaxFileBytes == 2

-----------------------------------------------------------------------------
(* Names.  Python compares str by code point: '.' < 'A'..'Z' < 'a'..'z'.    *)

NameOrder ==
    << ".env", ".git", "README.md", "a.py", "b.py", "deep", "etc", "lib",
       "lnk", "passwd", "readme.md", "repo", "sub", "up" >>

RankOf == [name \in {NameOrder[i] : i \in 1..Len(NameOrder)} |->
              CHOOSE i \in 1..Len(NameOrder) : NameOrder[i] = name]
Rank(name) == RankOf[name]

\* x["name"] < y["name"] of list.sort(key=lambda x: x["name"])
NameLess(a, b) == Rank(a) < Rank(b)

\* name.lower()
Lower(name) == IF name = "README.md" THEN "readme.md" ELSE name

\* name.startswith(".")
StartsWithDot(name) == name \in {".env", ".git"}

\* the names that end in ".py"
EndsWithPy(name) == name \in {"a.py", "b.py"}

-----------------------------------------------------------------------------
(* The filesystem: a function from the canonical path of every entry to    *)
(* what is there.  A link's target is a canonical path (no chain of links). *)

File(size, text, content) ==
    [kind |-> "file", size |-> size, text |-> text, content |-> content,
     target |-> <<>>, denied |-> FALSE, io |-> "ok"]
Dir(denied) ==
    [kind |-> "dir", size |-> 0, text |-> FALSE, content |-> "",
     target |-> <<>>, denied |-> denied, io |-> "ok"]
Link(target) ==
    [kind |-> "link", size |-> 0, text |-> FALSE, content |-> "",
     target |-> target, denied |-> FALSE, io |-> "ok"]
\* A file that cannot be read: with "open_fails" every open() raises OSError,
\* with "read_fails" the first 1024 bytes are read and a later read raises.
FaultyFile(size, text, content, io) == [File(size, text, content) EXCEPT !.io = io]

Repo == <<"repo">>
Lib == <<"repo", "lib">>
Sub == <<"repo", "lib", "sub">>
Deep == <<"repo", "lib", "sub", "deep">>
Etc == <<"etc">>

\* Where the link /repo/lnk may point: a file, a directory, outside the root.
LnkTargets == { Lib \o <<"a.py">>, Sub, Etc, Etc \o <<"passwd">> }
\* Where the link /repo/lib/sub/up may point: an ancestor, or outside.
UpTargets == { Repo, Lib, Etc \o <<"passwd">> }

Tree(sizeA, lnk, up) ==
       (Repo :> Dir(FALSE))
    @@ (Repo \o <<"README.md">> :> File(1, TRUE, "R"))
    @@ (Repo \o <<"readme.md">> :> File(1, TRUE, "r"))
    @@ (Repo \o <<"lnk">> :> Link(lnk))
    @@ (Lib :> Dir(FALSE))
    @@ (Lib \o <<"a.py">> :> File(sizeA, TRUE, IF sizeA = 0 THEN "" ELSE "A"))
    @@ (Lib \o <<".env">> :> File(1, FALSE, "E"))
    @@ (Sub :> Dir(FALSE))
    @@ (Sub \o <<"b.py">> :> File(2, TRUE, "B"))
    @@ (Sub \o <<"up">> :> Link(up))
    @@ (Deep :> Dir(TRUE))
    @@ (Etc :> Dir(FALSE))
    @@ (Etc \o <<"passwd">> :> File(1, TRUE, "P"))

FileSystems ==
    { Tree(sizeA, lnk, up) :
        sizeA \in 0..MaxFileBytes, lnk \in LnkTargets, up \in UpTargets }

\* The same trees with files that cannot be read and with a file in the
\* directory that cannot be searched, to which the two links may point.
Secret == Deep \o <<"secret">>
Faults == { "ok", "open_fails", "read_fails" }
FaultyTree(ioA, ioB, lnk, up) ==
       (Lib \o <<"a.py">> :> FaultyFile(1, TRUE, "A", ioA))
    @@ (Sub \o <<"b.py">> :> FaultyFile(1, TRUE, "B", ioB))
    @@ (Secret :> File(1, TRUE, "S"))
    @@ Tree(1, lnk, up)
FaultyFileSystems ==
    { FaultyTree(ioA, ioB, lnk, up) :
        ioA \in Faults, ioB \in Faults, lnk \in { Sub, Lib \o <<"a.py">>, Secret },
        up \in { Repo, Secret } }

\* The queries of directory mode: local_path with the include and ignore
\* pattern lists and max_file_size; subpath <<>> is "/", and the query of a
\* local directory has a slug and no user_name, commit or branch.
Query(include_patterns, ignore_patterns, max_file_size) ==
    [local_path |-> Repo, subpath |-> <<>>, type |-> "tree", slug |-> "repo",
     include_patterns |-> include_patterns, ignore_patterns |-> ignore_patterns,
     max_file_size |-> max_file_size]
\* The queries of single-file mode, as parsed from the URL of a blob: the
\* file is local_path / subpath.
BlobQuery(subpath, max_file_size) ==
    [local_path |-> Repo, subpath |-> subpath, type |-> "blob", slug |-> "u/r",
     user_name |-> "u", repo_name |-> "r",
     include_patterns |-> <<>>, ignore_patterns |-> <<>>,
     max_file_size |-> max_file_size]
BlobQueries ==
    { BlobQuery(subpath, 1) :
        subpath \in { <<"README.md">>, <<"lnk">>, <<"lib">>, <<"lib", "a.py">>,
                      <<"lib", ".env">>, <<"etc">> } }

Queries ==
    { Query(<<>>, <<>>, 1), Query(<<"*.py">>, <<>>, MAX_FILE_SIZE),
      Query(<<>>, <<"", "lib/sub">>, MAX_FILE_SIZE),
      Query(<<"*.py">>, <<"*.py">>, MAX_FILE_SIZE) }

VARIABLES
    fs,          \* the filesystem, unchanged during a scan
    query,       \* local_path, include_patterns, ignore_patterns
    pc,          \* "start", "scan", "done", "error"
    stack,       \* the active calls of _scan_directory, innermost last
    seen_paths,  \* the set shared by the whole walk
    stats,       \* total_files and total_size, shared by the whole walk
    nodes,       \* what the top-level _scan_directory returned
    entered,     \* history: the resolved directories enumerated, in order
    opened,      \* history: the resolved files opened for reading
    charged,     \* history: the resolved files whose size went into stats
    skipped,     \* history: the entries refused, with the reason
    previous,    \* <<nodes>> of the run before this one, <<>> in the first run
    output,      \* <<summary, tree, files_content>> once the ingest has returned
    config,      \* <<CloneConfig>> in a call of clone_repo, <<>> otherwise
    procs,       \* the subprocesses clone_repo has started, in order
    clock,       \* seconds since asyncio.wait_for was entered
    awaited      \* the call under async_timeout: "pending", "returned", an exception

vars == << fs, query, pc, stack, seen_paths, stats, nodes,
           entered, opened, charged, skipped, previous, output,
          config, procs, clock, awaited >>

\* what belongs to the call through async_timeout
wrapper_vars == << config, procs, clock, awaited >>

\* the function is called as it is, without the decorator
Unwrapped ==
    /\ config = <<>>
    /\ procs = <<>>
    /\ clock = 0
    /\ awaited = "unwrapped"

-----------------------------------------------------------------------------
(* pathlib                                                                 *)

Front(path) == SubSeq(path, 1, Len(path) - 1)
Last(path) == path[Len(path)]

\* base is path or one of path.parents
IsUnder(path, base) ==
    /\ Len(base) <= Len(path)
    /\ SubSeq(path, 1, Len(base)) = base

\* path.relative_to(base), where it does not raise ValueError
RelativeTo(path, base) == SubSeq(path, Len(base) + 1, Len(path))

IsLink(path) == path \in DOMAIN fs /\ fs[path].kind = "link"

\* Path.resolve(): every link on the way replaced by its target
RECURSIVE Resolve(_)
Resolve(path) ==
    IF path = <<>> THEN <<>>
    ELSE CHOOSE real \in { IF IsLink(here) THEN fs[here].target ELSE here :
                             here \in {Resolve(Front(path)) \o <<Last(path)>>} } : TRUE

Exists(path) == Resolve(path) \in DOMAIN fs
is_symlink(path) == path # <<>> /\ IsLink(Resolve(Front(path)) \o <<Last(path)>>)
is_file(path) == Exists(path) /\ fs[Resolve(path)].kind = "file"
is_dir(path) == Exists(path) /\ fs[Resolve(path)].kind = "dir"

\* stat() of path raises PermissionError: a directory on the way to what path
\* resolves to cannot be searched
StatDenied(path) ==
    \E n \in 1..(Len(Resolve(path)) - 1) :
        \E dir \in { SubSeq(Resolve(path), 1, n) } :
            dir \in DOMAIN fs /\ fs[dir].denied

\* the names path.iterdir() yields, in no particular order
iterdir(path) ==
    { Last(p) : p \in { q \in DOMAIN fs :
                          Len(q) = Len(Resolve(path)) + 1 /\ IsUnder(q, Resolve(path)) } }

-----------------------------------------------------------------------------
(* Pattern Filter                                                          *)

\* fnmatch(rel_str, pattern) for the patterns of Queries;
\* "*" also matches across "/", so "*.py" matches "lib/a.py".
fnmatch(rel, pattern) ==
    CASE pattern = "*.py" -> rel # <<>> /\ EndsWithPy(Last(rel))
      [] pattern = "lib/sub" -> rel = <<"lib", "sub">>
      [] OTHER -> FALSE

\* _should_include that tries the first pattern only.
_should_include_FirstOnly(path, base_path, include_patterns) ==
    /\ IsUnder(path, base_path)
    /\ include_patterns # <<>>
    /\ fnmatch(RelativeTo(path, base_path), include_patterns[1])

_should_include(path, base_path, include_patterns) ==
    IF ~IsUnder(path, base_path) THEN FALSE
    ELSE \E i \in 1..Len(include_patterns) :
            fnmatch(RelativeTo(path, base_path), include_patterns[i])

_should_exclude(path, base_path, ignore_patterns) ==
    IF ~IsUnder(path, base_path) THEN TRUE
    ELSE \E i \in 1..Len(ignore_patterns) :
            /\ ignore_patterns[i] # ""
            /\ fnmatch(RelativeTo(path, base_path), ignore_patterns[i])

\* _is_safe_symlink without the containment test: every link passes.
_is_safe_symlink_Unchecked(symlink_path, base_path) == TRUE

_is_safe_symlink(symlink_path, base_path) ==
    LET target_path == Resolve(symlink_path)
        base_resolved == Resolve(base_path)
    IN  \/ (IsUnder(target_path, base_resolved) /\ target_path # base_resolved)
        \/ target_path = base_resolved

-----------------------------------------------------------------------------
(* Content Classifier                                                      *)

\* A classifier that takes every file for text.
_is_text_file_Always(file_path) == TRUE

\* open + read(1024) + translate: no byte outside the allow-list
\* except OSError: return False
_is_text_file(file_path) == fs[file_path].io # "open_fails" /\ fs[file_path].text

\* f.read(), or except OSError as e: return f"Error reading file: {e}"
_read_file_content(file_path) ==
    IF fs[file_path].io = "ok" THEN fs[file_path].content
    ELSE IF fs[file_path].io = "open_fails"
    THEN "Error reading file: [Errno 13] Permission denied"
    ELSE "Error reading file: [Errno 5] Input/output error"

-----------------------------------------------------------------------------
(* _sort_children                                                          *)

\* list.sort(key=name) is stable: an element goes after every element whose
\* name is not greater than its own.
RECURSIVE InsertByName(_, _)
InsertByName(sorted, x) ==
    IF sorted = <<>> THEN <<x>>
    ELSE IF NameLess(x.name, Head(sorted).name)
         THEN <<x>> \o sorted
         ELSE <<Head(sorted)>> \o InsertByName(Tail(sorted), x)

RECURSIVE SortByName(_)
SortByName(list) ==
    IF list = <<>> THEN <<>>
    ELSE InsertByName(SortByName(Front(list)), Last(list))

_sort_children(children) ==
    LET files == SelectSeq(children, LAMBDA child : child.type = "file")
        directories == SelectSeq(children, LAMBDA child : child.type = "directory")
        readme_files == SelectSeq(files, LAMBDA f : Lower(f.name) = "readme.md")
        other_files == SelectSeq(files, LAMBDA f : Lower(f.name) # "readme.md")
        regular_files == SelectSeq(other_files, LAMBDA f : ~StartsWithDot(f.name))
        hidden_files == SelectSeq(other_files, LAMBDA f : StartsWithDot(f.name))
        regular_dirs == SelectSeq(directories, LAMBDA d : ~StartsWithDot(d.name))
        hidden_dirs == SelectSeq(directories, LAMBDA d : StartsWithDot(d.name))
    IN  readme_files \o SortByName(regular_files) \o SortByName(hidden_files)
            \o SortByName(regular_dirs) \o SortByName(hidden_dirs)

-----------------------------------------------------------------------------
(* The handlers of one directory entry.  Each is the function of the code   *)
(* on the values it reads and writes: the directory node under             *)
(* construction (result), the shared stats, and what it raised (exc).      *)
(* call says which recursive _scan_directory call is due next.             *)

FileNode(item, file_size, content) ==
    [name |-> Last(item), type |-> "file", size |-> file_size,
     content |-> content, path |-> item]

DirectoryNode(path) ==
    [name |-> Last(path), type |-> "directory", size |-> 0, children |-> <<>>,
     file_count |-> 0, dir_count |-> 0, path |-> path, ignore_content |-> FALSE]

Outcome(result, st, exc, why, call, reads, sizes) ==
    [result |-> result, stats |-> st, exc |-> exc, why |-> why, call |-> call,
     opened |-> reads, charged |-> sizes]

\* _process_file without the total-size test.
_process_file_NoSizeTest(item, result, st) ==
    LET real == Resolve(item)
        file_size == fs[real].size
        counted == [total_files |-> st.total_files + 1,
                    total_size |-> st.total_size + file_size]
        content == IF _is_text_file(real) THEN _read_file_content(real)
                   ELSE "[Non-text file]"
        child == FileNode(item, file_size, content)
    IN  IF counted.total_files > MAX_FILES
        THEN Outcome(result, counted, "MaxFilesReachedError", "MaxFilesReachedError",
                     "none", {}, <<real>>)
        ELSE Outcome([result EXCEPT !.children = Append(@, child),
                                    !.size = @ + file_size,
                                    !.file_count = @ + 1],
                     counted, "none", "", "none", {real}, <<real>>)

_process_file(item, result, st) ==
    LET real == Resolve(item)
        file_size == fs[real].size
        counted == [total_files |-> st.total_files + 1,
                    total_size |-> st.total_size + file_size]
        content == IF _is_text_file(real) THEN _read_file_content(real)
                   ELSE "[Non-text file]"
        child == FileNode(item, file_size, content)
    IN  IF st.total_size + file_size > MAX_TOTAL_SIZE_BYTES
        THEN Outcome(result, st, "MaxFileSizeReachedError", "MaxFileSizeReachedError",
                     "none", {}, <<>>)
        ELSE IF counted.total_files > MAX_FILES
        THEN Outcome(result, counted, "MaxFilesReachedError", "MaxFilesReachedError",
                     "none", {}, <<real>>)
        ELSE Outcome([result EXCEPT !.children = Append(@, child),
                                    !.size = @ + file_size,
                                    !.file_count = @ + 1],
                     counted, "none", "", "none", {real}, <<real>>)

\* Up to the recursive call of the directory branch, which call = "symlink" asks for.
_process_symlink(item, result, seen, st, base_path) ==
    LET real_path == Resolve(item)
        file_size == fs[real_path].size
        counted == [total_files |-> st.total_files + 1,
                    total_size |-> st.total_size + file_size]
        content == IF _is_text_file(real_path) THEN _read_file_content(real_path)
                   ELSE "[Non-text file]"
        child == FileNode(item, file_size, content)
    IN  IF ~_is_safe_symlink(item, base_path)
        THEN Outcome(result, st, "AlreadyVisitedError", "unsafe_symlink", "none", {}, <<>>)
        ELSE IF real_path \in seen
        THEN Outcome(result, st, "AlreadyVisitedError", "visited_symlink", "none", {}, <<>>)
        ELSE IF real_path \in DOMAIN fs /\ fs[real_path].kind = "file"
        THEN IF st.total_size + file_size > MAX_TOTAL_SIZE_BYTES
             THEN Outcome(result, st, "MaxFileSizeReachedError",
                          "MaxFileSizeReachedError", "none", {}, <<>>)
             ELSE IF counted.total_files > MAX_FILES
             THEN Outcome(result, counted, "MaxFilesReachedError",
                          "MaxFilesReachedError", "none", {}, <<real_path>>)
             ELSE Outcome([result EXCEPT !.children = Append(@, child),
                                         !.size = @ + file_size,
                                         !.file_count = @ + 1],
                          counted, "none", "", "none", {real_path}, <<real_path>>)
        ELSE IF real_path \in DOMAIN fs /\ fs[real_path].kind = "dir"
        THEN Outcome(result, st, "none", "", "symlink", {}, <<>>)
        ELSE Outcome(result, st, "none", "", "none", {}, <<>>)

\* _process_item without the include test.
IncludeSkip_Never(item, base_path, include_patterns) == FALSE

\* The include test with every entry held to it, directories too.
IncludeSkip_AnyEntry(item, base_path, include_patterns) ==
    /\ include_patterns # <<>>
    /\ ~_should_include(item, base_path, include_patterns)

\* if item.is_file() and query["include_patterns"] and not _should_include(...)
IncludeSkip(item, base_path, include_patterns) ==
    /\ is_file(item)
    /\ include_patterns # <<>>
    /\ ~_should_include(item, base_path, include_patterns)

\* _process_item without its except clause.
CaughtByItem_Nothing(exc) == FALSE

\* except (MaxFileSizeReachedError, AlreadyVisitedError) as e: print(e)
CaughtByItem(exc) == exc \in {"MaxFileSizeReachedError", "AlreadyVisitedError"}

\* Up to the recursive call, which call = "symlink" or "dir" asks for.  exc is
\* what leaves _process_item: only MaxFilesReachedError does.
_process_item(item, result, seen, st, q) ==
    LET base_path == q.local_path
        viaLink == _process_symlink(item, result, seen, st, base_path)
        asFile == _process_file(item, viaLink.result, viaLink.stats)
        plain == _process_file(item, result, st)
        Caught(o) == [o EXCEPT !.exc = "none"]
    IN  IF _should_exclude(item, base_path, q.ignore_patterns)
        THEN Outcome(result, st, "none", "excluded", "none", {}, <<>>)
        ELSE IF StatDenied(item)
        THEN Outcome(result, st, "PermissionError", "PermissionError", "none", {}, <<>>)
        ELSE IF IncludeSkip(item, base_path, q.include_patterns)
        THEN Outcome([result EXCEPT !.ignore_content = TRUE], st, "none",
                     "not_included", "none", {}, <<>>)
        ELSE IF is_symlink(item)
        THEN IF CaughtByItem(viaLink.exc)
             THEN Caught(viaLink)
             ELSE IF viaLink.exc # "none" \/ viaLink.call = "symlink"
             THEN viaLink
             ELSE IF is_file(item)
             THEN LET both == [asFile EXCEPT
                                 !.opened = viaLink.opened \cup @,
                                 !.charged = viaLink.charged \o @]
                  IN  IF CaughtByItem(asFile.exc) THEN Caught(both) ELSE both
             ELSE IF is_dir(item)
             THEN [viaLink EXCEPT !.call = "dir"]
             ELSE viaLink
        ELSE IF is_file(item)
        THEN IF CaughtByItem(plain.exc) THEN Caught(plain) ELSE plain
        ELSE IF is_dir(item)
        THEN Outcome(result, st, "none", "", "dir", {}, <<>>)
        ELSE Outcome(result, st, "none", "", "none", {}, <<>>)

-----------------------------------------------------------------------------
(* _scan_directory                                                         *)

\* ScanGuard without the depth test.
ScanGuard_NoDepth(path, depth, seen, st) ==
    IF st.total_files >= MAX_FILES THEN "max_files"
    ELSE IF st.total_size >= MAX_TOTAL_SIZE_BYTES THEN "max_size"
    ELSE IF Resolve(path) \in seen THEN "visited"
    ELSE "enter"

\* ScanGuard without the file-count test.
ScanGuard_NoFileCeiling(path, depth, seen, st) ==
    IF depth > MAX_DIRECTORY_DEPTH THEN "depth"
    ELSE IF st.total_size >= MAX_TOTAL_SIZE_BYTES THEN "max_size"
    ELSE IF Resolve(path) \in seen THEN "visited"
    ELSE "enter"

\* ScanGuard without the seen_paths test.
ScanGuard_NoSeenPaths(path, depth, seen, st) ==
    IF depth > MAX_DIRECTORY_DEPTH THEN "depth"
    ELSE IF st.total_files >= MAX_FILES THEN "max_files"
    ELSE IF st.total_size >= MAX_TOTAL_SIZE_BYTES THEN "max_size"
    ELSE "enter"

\* The checks before a directory is enumerated: "enter", or why None is returned.
ScanGuard(path, depth, seen, st) ==
    IF depth > MAX_DIRECTORY_DEPTH THEN "depth"
    ELSE IF st.total_files >= MAX_FILES THEN "max_files"
    ELSE IF st.total_size >= MAX_TOTAL_SIZE_BYTES THEN "max_size"
    ELSE IF Resolve(path) \in seen THEN "visited"
    ELSE "enter"

\* One active call: the directory node under construction and the entries that
\* path.iterdir() has still to yield (none when listing raises PermissionError).
\* via, item and rest say how the caller goes on when this call returns.
Frame(path, depth, via, item, rest) ==
    [path |-> path, depth |-> depth, result |-> DirectoryNode(path),
     todo |-> IF fs[Resolve(path)].denied THEN {} ELSE iterdir(path),
     stop |-> IF fs[Resolve(path)].denied THEN "PermissionError" ELSE "none",
     via |-> via, item |-> item, rest |-> rest]

\* The recursive calls one entry asks for, in the order of the code: a safe
\* link to a directory is scanned by _process_symlink (its resolved path) and
\* then again by the elif item.is_dir() branch of _process_item (its own path).
Calls(kind, item) ==
    IF kind = "symlink"
    THEN << [path |-> Resolve(item), via |-> "symlink"], [path |-> item, via |-> "dir"] >>
    ELSE << [path |-> item, via |-> "dir"] >>

\* Make the calls in turn until one passes ScanGuard and starts to enumerate;
\* a call that returns None attaches nothing and the next call is made.
RECURSIVE RunCalls(_, _, _, _, _, _)
RunCalls(stk, calls, depth, item, seen, st) ==
    IF calls = <<>>
    THEN [stack |-> stk, seen |-> seen, entered |-> <<>>, skipped |-> {}]
    ELSE LET c == Head(calls)
             guard == ScanGuard(c.path, depth, seen, st)
             later == RunCalls(stk, Tail(calls), depth, item, seen, st)
         IN  IF guard = "enter"
             THEN [stack |-> Append(stk, Frame(c.path, depth, c.via, item, Tail(calls))),
                   seen |-> seen \cup {Resolve(c.path)},
                   entered |-> <<Resolve(c.path)>>,
                   skipped |-> {}]
             ELSE [later EXCEPT
                     !.skipped = @ \cup {[item |-> c.path, why |-> guard]}]

\* Attach without the test of the include patterns and of file_count.
Attach_Always(result, subdir, via, item, include_patterns) ==
    LET renamed == IF via = "symlink"
                   THEN [subdir EXCEPT !.name = Last(item), !.path = item]
                   ELSE subdir
    IN  [result EXCEPT !.children = Append(@, renamed),
                       !.size = @ + subdir.size,
                       !.file_count = @ + subdir.file_count,
                       !.dir_count = @ + 1 + subdir.dir_count]

\* Attach without result["size"] += subdir["size"].
Attach_NoSize(result, subdir, via, item, include_patterns) ==
    LET renamed == IF via = "symlink"
                   THEN [subdir EXCEPT !.name = Last(item), !.path = item]
                   ELSE subdir
    IN  IF include_patterns = <<>> \/ subdir.file_count > 0
        THEN [result EXCEPT !.children = Append(@, renamed),
                            !.file_count = @ + subdir.file_count,
                            !.dir_count = @ + 1 + subdir.dir_count]
        ELSE result

\* if subdir and (not include_patterns or subdir["file_count"] > 0): attach
Attach(result, subdir, via, item, include_patterns) ==
    LET renamed == IF via = "symlink"
                   THEN [subdir EXCEPT !.name = Last(item), !.path = item]
                   ELSE subdir
    IN  IF include_patterns = <<>> \/ subdir.file_count > 0
        THEN [result EXCEPT !.children = Append(@, renamed),
                            !.size = @ + subdir.size,
                            !.file_count = @ + subdir.file_count,
                            !.dir_count = @ + 1 + subdir.dir_count]
        ELSE result

Top == stack[Len(stack)]
Finished(frame) == frame.todo = {}

-----------------------------------------------------------------------------
(* Output formatter.  A string is the sequence of its lines, a line the     *)
(* sequence of its pieces, so that "File: lib/a.py\n" is the one line       *)
(* <<"File: ", "lib", "/", "a.py">>.                                        *)

Digit == <<"0", "1", "2", "3", "4", "5", "6", "7", "8", "9">>

\* str(n) and f"{n}" of a natural number, digit by digit
RECURSIVE str(_)
str(n) == IF n < 10 THEN <<Digit[n + 1]>> ELSE str(n \div 10) \o <<Digit[(n % 10) + 1]>>

\* str(relative_path)
RECURSIVE PathStr(_)
PathStr(rel) ==
    IF rel = <<>> THEN <<".">>
    ELSE IF Len(rel) = 1 THEN rel
    ELSE PathStr(Front(rel)) \o <<"/", Last(rel)>>

\* The file_info records in the order the recursion appends them; content is
\* <<>> for None and <<text>> otherwise.
RECURSIVE _extract_files_content(_, _, _)
_extract_files_content(q, node, max_file_size) ==
    IF node.type = "file" /\ node.content # "[Non-text file]"
    THEN << [path |-> PathStr(RelativeTo(node.path, q.local_path)),
             content |-> IF node.size > max_file_size THEN <<>> ELSE <<node.content>>,
             size |-> node.size] >>
    ELSE IF node.type = "directory"
    THEN LET files[i \in 0..Len(node.children)] ==
                 IF i = 0 THEN <<>>
                 ELSE files[i - 1]
                        \o _extract_files_content(q, node.children[i], max_file_size)
         IN  files[Len(node.children)]
    ELSE <<>>

\* Path(node["path"]).relative_to(query["local_path"]) raises ValueError
RECURSIVE NotRelative(_, _)
NotRelative(q, node) ==
    IF node.type = "file"
    THEN node.content # "[Non-text file]" /\ ~IsUnder(node.path, q.local_path)
    ELSE \E i \in 1..Len(node.children) : NotRelative(q, node.children[i])

\* "=" * 48
Separator == "================================================"

\* if not file["content"]: continue
Falsy(content) == content = <<>> \/ content[1] = ""

_create_file_content_string(files) ==
    LET acc[i \in 0..Len(files)] ==
            IF i = 0 THEN <<>>
            ELSE IF Falsy(files[i].content) THEN acc[i - 1]
            ELSE acc[i - 1] \o << <<Separator>>, <<"File: ">> \o files[i].path,
                                     <<Separator>>, files[i].content, <<>> >>
    IN  acc[Len(files)]

\* What tiktoken makes of a text: it raises ValueError or UnicodeEncodeError,
\* or encodes it in total_tokens tokens.
TokenCounts == {7, 1500}
Encodings ==
    { [raises |-> TRUE, total_tokens |-> 0] }
        \cup { [raises |-> FALSE, total_tokens |-> n] : n \in TokenCounts }

\* <<>> is None.  f"{x:.1f}" rounds to the nearest tenth.
FormatTokens(total_tokens) ==
    IF total_tokens > 1000000
    THEN str(((total_tokens + 50000) \div 100000) \div 10)
            \o <<".">> \o str(((total_tokens + 50000) \div 100000) % 10) \o <<"M">>
    ELSE IF total_tokens > 1000
    THEN str(((total_tokens + 50) \div 100) \div 10)
            \o <<".">> \o str(((total_tokens + 50) \div 100) % 10) \o <<"k">>
    ELSE str(total_tokens)

_generate_token_string(encoding) ==
    IF encoding.raises THEN <<>> ELSE FormatTokens(encoding.total_tokens)

\* _create_summary_string with "if" for "elif" before the branch test.
_create_summary_string_Both(q, root) ==
    (IF "user_name" \in DOMAIN q
     THEN << <<"Repository: ", q.user_name, "/", q.repo_name>> >>
     ELSE << <<"Repository: ", q.slug>> >>)
    \o << <<"Files analyzed: ">> \o str(root.file_count) >>
    \o (IF "subpath" \in DOMAIN q /\ q.subpath # <<>>
        THEN << <<"Subpath: ", "/">> \o PathStr(q.subpath) >> ELSE <<>>)
    \o (IF "commit" \in DOMAIN q /\ q.commit # ""
        THEN << <<"Commit: ", q.commit>> >> ELSE <<>>)
    \o (IF "branch" \in DOMAIN q /\ q.branch \notin {"main", "master", ""}
        THEN << <<"Branch: ", q.branch>> >> ELSE <<>>)

_create_summary_string(q, root) ==
    (IF "user_name" \in DOMAIN q
     THEN << <<"Repository: ", q.user_name, "/", q.repo_name>> >>
     ELSE << <<"Repository: ", q.slug>> >>)
    \o << <<"Files analyzed: ">> \o str(root.file_count) >>
    \o (IF "subpath" \in DOMAIN q /\ q.subpath # <<>>
        THEN << <<"Subpath: ", "/">> \o PathStr(q.subpath) >> ELSE <<>>)
    \o (IF "commit" \in DOMAIN q /\ q.commit # ""
        THEN << <<"Commit: ", q.commit>> >>
        ELSE IF "branch" \in DOMAIN q /\ q.branch \notin {"main", "master", ""}
        THEN << <<"Branch: ", q.branch>> >>
        ELSE <<>>)

\* _create_tree_structure with the children at their parent's indentation.
RECURSIVE _create_tree_structure_Flat(_, _, _, _)
_create_tree_structure_Flat(q, node, prefix, is_last) ==
    LET line == << prefix \o <<IF is_last THEN "+-- " ELSE "|-- ", node.name>>
                     \o (IF node.type = "directory" THEN <<"/">> ELSE <<>>) >>
    IN  IF node.type = "directory"
        THEN LET tree[i \in 0..Len(node.children)] ==
                     IF i = 0 THEN line
                     ELSE tree[i - 1]
                            \o _create_tree_structure_Flat(q, node.children[i], prefix,
                                                           i = Len(node.children))
             IN  tree[Len(node.children)]
        ELSE line

\* The box-drawing connectors are written in ASCII: "+-- " for the last child,
\* "|-- " for the others, "|   " for the rule that continues below.
RECURSIVE _create_tree_structure(_, _, _, _)
_create_tree_structure(q, node, prefix, is_last) ==
    LET name == IF node.name = "" THEN q.slug ELSE node.name
        current_prefix == IF is_last THEN "+-- " ELSE "|-- "
        line == IF name = "" THEN <<>>
                ELSE << prefix \o <<current_prefix, name>>
                          \o (IF node.type = "directory" THEN <<"/">> ELSE <<>>) >>
        new_prefix == IF name = "" THEN prefix
                      ELSE prefix \o <<IF is_last THEN "    " ELSE "|   ">>
    IN  IF node.type = "directory"
        THEN LET tree[i \in 0..Len(node.children)] ==
                     IF i = 0 THEN line
                     ELSE tree[i - 1]
                            \o _create_tree_structure(q, node.children[i], new_prefix,
                                                      i = Len(node.children))
             IN  tree[Len(node.children)]
        ELSE line

\* summary += f"\nEstimated tokens: {formatted_tokens}" when there is one
WithTokens(summary, formatted_tokens) ==
    IF formatted_tokens = <<>> THEN summary
    ELSE summary \o << <<>>, <<"Estimated tokens: ">> \o formatted_tokens >>

\* What _ingest_directory returns for the scanned tree under one encoding of
\* tree + files_content: <<summary, tree, files_content>>.
DirectoryOutput(q, root, encoding) ==
    << WithTokens(_create_summary_string(q, root), _generate_token_string(encoding)),
       << <<"Directory structure:">> >> \o _create_tree_structure(q, root, <<>>, TRUE),
       _create_file_content_string(_extract_files_content(q, root, q.max_file_size)) >>

\* len(content.splitlines()) for the contents of the model: one line each
SplitLines(content) == IF content = "" THEN 0 ELSE 1

\* _ingest_single_file: exc is the ValueError raised, or "none" with output.
_ingest_single_file(path, q, encoding) ==
    LET real == Resolve(path)
        file_size == fs[real].size
        content == IF file_size > q.max_file_size
                   THEN "[Content ignored: file too large]"
                   ELSE _read_file_content(real)
        file_info == [path |-> PathStr(RelativeTo(path, q.local_path)),
                      content |-> <<content>>, size |-> file_size]
        summary == << <<"Repository: ", q.user_name, "/", q.repo_name>>,
                      <<"File: ", Last(path)>>,
                      <<"Size: ">> \o str(file_size) \o <<" bytes">>,
                      <<"Lines: ">> \o str(SplitLines(content)) >>
        files_content == _create_file_content_string(<<file_info>>)
        tree == << <<"Directory structure:">>, <<"+-- ", Last(path)>> >>
    IN  IF ~is_file(path)
        THEN [exc |-> "not a file", output |-> <<>>, opened |-> {}]
        ELSE IF ~_is_text_file(real)
        THEN [exc |-> "not a text file", output |-> <<>>, opened |-> {real}]
        ELSE [exc |-> "none",
              output |-> << WithTokens(summary, _generate_token_string(encoding)),
                            tree, files_content >>,
              opened |-> {real}]

-----------------------------------------------------------------------------
(* The state machine                                                       *)

Init ==
    /\ fs \in FileSystems
    /\ query \in Queries \cup BlobQueries
    /\ pc = "start"
    /\ stack = <<>>
    /\ seen_paths = {}
    /\ stats = [total_files |-> 0, total_size |-> 0]
    /\ nodes = "None"
    /\ entered = <<>>
    /\ opened = {}
    /\ charged = <<>>
    /\ skipped = {}
    /\ previous = <<>>
    /\ output = <<>>
    /\ Unwrapped

\* path = query["local_path"] / query["subpath"].lstrip("/")
QueryPath == query.local_path \o query.subpath

\* run_ingest_query: if not path.exists(): raise ValueError
PathNotFound ==
    /\ pc = "start"
    /\ ~Exists(QueryPath)
    /\ pc' = "error"
    /\ UNCHANGED << fs, query, stack, seen_paths, stats, nodes, entered, opened,
                    charged, skipped, previous, output >>
    /\ UNCHANGED wrapper_vars

\* run_ingest_query with type "blob": the whole of _ingest_single_file.
IngestSingleFile ==
    /\ pc = "start"
    /\ Exists(QueryPath)
    /\ query.type = "blob"
    /\ \E encoding \in Encodings :
       \E o \in { _ingest_single_file(QueryPath, query, encoding) } :
           /\ pc' = IF o.exc = "none" THEN "done" ELSE "error"
           /\ output' = o.output
           /\ opened' = opened \cup o.opened
    /\ UNCHANGED << fs, query, stack, seen_paths, stats, nodes, entered, charged,
                    skipped, previous >>
    /\ UNCHANGED wrapper_vars

\* _ingest_directory: nodes = _scan_directory(path=path, query=query)
IngestDirectory ==
    /\ pc = "start"
    /\ Exists(QueryPath)
    /\ query.type # "blob"
    /\ \E r \in { RunCalls(<<>>, << [path |-> QueryPath, via |-> "root"] >>,
                           0, <<>>, {}, stats) } :
           /\ stack' = r.stack
           /\ seen_paths' = r.seen
           /\ entered' = r.entered
           /\ skipped' = r.skipped
           /\ pc' = IF r.stack = <<>> THEN "error" ELSE "scan"
    /\ UNCHANGED << fs, query, stats, nodes, opened, charged, previous, output >>
    /\ UNCHANGED wrapper_vars

\* _scan_directory without its except clauses.
CaughtByScan_Nothing(exc) == FALSE

\* except MaxFilesReachedError / except PermissionError around the loop
CaughtByScan(exc) == exc \in {"MaxFilesReachedError", "PermissionError"}

\* The exception leaves every active call and _ingest_directory with them.
Escapes(o) == o.exc # "none" /\ ~CaughtByScan(o.exc)

\* The frame of the innermost call after one entry: the loop goes on unless
\* the entry raised what _process_item does not catch.
AfterItem(frame, name, o) ==
    [frame EXCEPT !.result = o.result,
                  !.todo = IF o.exc = "none" THEN @ \ {name} ELSE {},
                  !.stop = o.exc]

\* One turn of "for item in path.iterdir(): _process_item(...)" in the
\* innermost call, for whichever entry the enumeration yields next.
ProcessItem ==
    /\ pc = "scan"
    /\ \E name \in Top.todo :
       \E item \in { Top.path \o <<name>> } :
       \E o \in { _process_item(item, Top.result, seen_paths, stats, query) } :
       \E r \in { RunCalls([stack EXCEPT ![Len(stack)] = AfterItem(Top, name, o)],
                           IF o.call = "none" THEN <<>> ELSE Calls(o.call, item),
                           Top.depth + 1, item, seen_paths, o.stats) } :
           /\ stack' = IF Escapes(o) THEN <<>> ELSE r.stack
           /\ pc' = IF Escapes(o) THEN "error" ELSE pc
           /\ seen_paths' = r.seen
           /\ stats' = o.stats
           /\ entered' = entered \o r.entered
           /\ opened' = opened \cup o.opened
           /\ charged' = charged \o o.charged
           /\ skipped' = skipped \cup r.skipped
                  \cup IF o.why = "" THEN {} ELSE {[item |-> item, why |-> o.why]}
    /\ UNCHANGED << fs, query, nodes, previous, output >>
    /\ UNCHANGED wrapper_vars

\* The caller's stack once the innermost call has returned subdir to it.
Returned(stk, subdir, include_patterns) ==
    [SubSeq(stk, 1, Len(stk) - 1) EXCEPT
        ![Len(stk) - 1].result =
            Attach(@, subdir, stk[Len(stk)].via, stk[Len(stk)].item, include_patterns)]

\* The end of a nested call: the loop is over (exhausted, or left by
\* MaxFilesReachedError or PermissionError), the children are sorted, the node
\* is returned and the caller attaches it and goes on with the same entry.
Return ==
    /\ pc = "scan"
    /\ Len(stack) > 1
    /\ Finished(Top)
    /\ \E subdir \in { [Top.result EXCEPT !.children = _sort_children(@)] } :
       \E r \in { RunCalls(Returned(stack, subdir, query.include_patterns), Top.rest,
                           Top.depth, Top.item, seen_paths, stats) } :
           /\ stack' = r.stack
           /\ seen_paths' = r.seen
           /\ entered' = entered \o r.entered
           /\ skipped' = skipped \cup r.skipped
    /\ UNCHANGED << fs, query, pc, stats, nodes, opened, charged, previous, output >>
    /\ UNCHANGED wrapper_vars

\* The end of the top-level call and the rest of _ingest_directory: the node
\* is sorted and returned, and the three strings are made from it, unless a
\* node path is not below query["local_path"] and relative_to raises.
ReturnRoot ==
    /\ pc = "scan"
    /\ Len(stack) = 1
    /\ Finished(Top)
    /\ \E root \in { [Top.result EXCEPT !.children = _sort_children(@)] } :
       \E encoding \in Encodings :
           /\ nodes' = root
           /\ IF NotRelative(query, root)
              THEN pc' = "error" /\ output' = <<>>
              ELSE pc' = "done" /\ output' = DirectoryOutput(query, root, encoding)
    /\ stack' = <<>>
    /\ UNCHANGED << fs, query, seen_paths, stats, entered, opened, charged, skipped,
                    previous >>
    /\ UNCHANGED wrapper_vars

\* The queries that reach _create_summary_string: of a local directory or of
\* a repository, at its root or at a subpath, with or without the keys commit
\* and branch, and each of them empty, a default name or another name.
Absent == [key \in {} |-> ""]
SummaryQueries ==
    { [Query(<<>>, <<>>, MAX_FILE_SIZE) EXCEPT !.subpath = subpath]
          @@ repository @@ commit @@ branch :
        subpath \in { <<>>, <<"lib">> },
        repository \in { Absent, [user_name |-> "u", repo_name |-> "r"] },
        commit \in { Absent, [commit |-> ""], [commit |-> "abc123"] },
        branch \in { Absent, [branch |-> ""], [branch |-> "main"],
                     [branch |-> "master"], [branch |-> "dev"] } }

\* _ingest_directory after the scan: nodes is the root node, of which the
\* summary reads file_count only.
InitSummary ==
    /\ fs \in { Tree(1, Sub, Lib) }
    /\ query \in SummaryQueries
    /\ pc = "scanned"
    /\ stack = <<>>
    /\ seen_paths = {}
    /\ stats = [total_files |-> 0, total_size |-> 0]
    /\ nodes \in { [DirectoryNode(Repo) EXCEPT !.file_count = n] : n \in 0..MAX_FILES }
    /\ entered = <<>>
    /\ opened = {}
    /\ charged = <<>>
    /\ skipped = {}
    /\ previous = <<>>
    /\ output = <<>>
    /\ Unwrapped

\* summary = _create_summary_string(query, nodes)
Summarise ==
    /\ pc = "scanned"
    /\ output' = << _create_summary_string(query, nodes) >>
    /\ pc' = "summarised"
    /\ UNCHANGED << fs, query, stack, seen_paths, stats, nodes, entered, opened,
                    charged, skipped, previous >>
    /\ UNCHANGED wrapper_vars

SpecSummary == InitSummary /\ [][Summarise]_vars

Next ==
    \/ PathNotFound
    \/ IngestSingleFile
    \/ IngestDirectory
    \/ ProcessItem
    \/ Return
    \/ ReturnRoot

Spec == Init /\ [][Next]_vars

\* A second run of _ingest_directory on the same filesystem with the same
\* query: every run starts from an empty seen_paths and zeroed stats, and what
\* the first run returned is kept for comparison.
Rescan ==
    /\ pc = "done"
    /\ previous = <<>>
    /\ previous' = <<nodes>>
    /\ pc' = "start"
    /\ stack' = <<>>
    /\ seen_paths' = {}
    /\ stats' = [total_files |-> 0, total_size |-> 0]
    /\ nodes' = "None"
    /\ entered' = <<>>
    /\ opened' = {}
    /\ charged' = <<>>
    /\ skipped' = {}
    /\ output' = <<>>
    /\ UNCHANGED << fs, query >>
    /\ UNCHANGED wrapper_vars

\* The trees in which a directory is reachable by more than one path.
InitTwice ==
    /\ Init
    /\ fs \in { Tree(sizeA, Sub, Lib) : sizeA \in 0..MaxFileBytes }

NextTwice ==
    \/ PathNotFound
    \/ IngestSingleFile
    \/ IngestDirectory
    \/ ProcessItem
    \/ Return
    \/ ReturnRoot
    \/ Rescan

-----------------------------------------------------------------------------
(* async_timeout, clone_repo and run_ingest_query as coroutines.  The event *)
(* loop runs a coroutine from one await to the next without interruption;   *)
(* the timer of asyncio.wait_for can end the call only while the coroutine  *)
(* is suspended in an await.                                                *)

CloneConfig(url, local_path, commit, branch) ==
    [url |-> url, local_path |-> local_path, commit |-> commit, branch |-> branch]

\* None is written "" for commit and branch
CloneConfigs ==
    { CloneConfig(url, local_path, commit, branch) :
        url \in { "", "https://github.com/u/r" },
        local_path \in { "", "/tmp/gitingest/r" },
        commit \in { "", "abc123" },
        branch \in { "", "main", "dev" } }

\* the exit statuses of a subprocess, and what curl -I prints on stdout
ReturnCodes == { 0, 1 }
StatusLines == { "HTTP/2 200", "HTTP/1.1 404", "HTTP/2 404" }

\* Either run_ingest_query(query) or clone_repo(config) is called through
\* the wrapper of async_timeout, which enters asyncio.wait_for.
InitAsync ==
    /\ fs \in { Tree(1, Sub, Lib) }
    /\ query \in { Query(<<>>, <<>>, MAX_FILE_SIZE),
                   BlobQuery(<<"lib", "a.py">>, MAX_FILE_SIZE), BlobQuery(<<"etc">>, 1) }
    /\ \/ /\ config = <<>>
          /\ pc = "start"
       \/ /\ config \in { <<c>> : c \in CloneConfigs }
          /\ query = Query(<<>>, <<>>, MAX_FILE_SIZE)
          /\ pc = "clone_repo"
    /\ stack = <<>>
    /\ seen_paths = {}
    /\ stats = [total_files |-> 0, total_size |-> 0]
    /\ nodes = "None"
    /\ entered = <<>>
    /\ opened = {}
    /\ charged = <<>>
    /\ skipped = {}
    /\ previous = <<>>
    /\ output = <<>>
    /\ procs = <<>>
    /\ clock = 0
    /\ awaited = "pending"

scan_vars == << fs, query, stack, seen_paths, stats, nodes, entered, opened, charged,
               skipped, previous, output >>

\* async_timeout(seconds) of the function that was called
seconds == IF config = <<>> THEN PROCESSING_TIMEOUT ELSE CLONE_TIMEOUT

\* the coroutine is suspended in an await: clone_repo while a subprocess
\* runs; run_ingest_query never, there is no await in its body
Suspended == pc \in { "curl", "clone", "checkout" }

\* asyncio.create_subprocess_exec(*cmd)
Proc(cmd) == [cmd |-> cmd, exited |-> FALSE, returncode |-> 0, stdout |-> ""]
Started(cmd) == Append(procs, Proc(cmd))
\* proc.communicate() has returned for the subprocess started last
Exited(returncode, stdout) ==
    [procs EXCEPT ![Len(procs)] = [@ EXCEPT !.exited = TRUE, !.returncode = returncode,
                                            !.stdout = stdout]]

\* A second passes while the coroutine runs or is suspended.
Tick ==
    /\ awaited = "pending"
    /\ pc \notin { "done", "error" }
    /\ clock <= seconds
    /\ clock' = clock + 1
    /\ UNCHANGED << scan_vars, pc, config, procs, awaited >>

\* The timer of asyncio.wait_for: the event loop cancels the suspended
\* coroutine and the wrapper raises AsyncTimeoutError.
TimedOut ==
    /\ awaited = "pending"
    /\ clock >= seconds
    /\ Suspended
    /\ awaited' = "AsyncTimeoutError"
    /\ pc' = "cancelled"
    /\ UNCHANGED << scan_vars, config, procs, clock >>

\* run_ingest_query has returned or raised: wait_for hands that on.
Awaited ==
    /\ awaited = "pending"
    /\ config = <<>>
    /\ pc \in { "done", "error" }
    /\ awaited' = IF pc = "done" THEN "returned" ELSE "ValueError"
    /\ UNCHANGED << scan_vars, pc, config, procs, clock >>

\* clone_repo up to its first await: the two tests of the parameters, then
\* _check_repo_exists starts curl -I url.
CloneRepo ==
    /\ pc = "clone_repo"
    /\ awaited = "pending"
    /\ IF config[1].url = "" \/ config[1].local_path = ""
       THEN pc' = "raised" /\ awaited' = "ValueError" /\ procs' = procs
       ELSE pc' = "curl" /\ awaited' = awaited /\ procs' = Started("curl")
    /\ UNCHANGED << scan_vars, config, clock >>

\* _check_repo_exists: the answer of curl
RepoNotFound(returncode, status) ==
    returncode # 0 \/ status \in { "HTTP/1.1 404", "HTTP/2 404" }

\* the git clone command of the three scenarios
CloneCmd ==
    IF config[1].commit # "" THEN "git clone --single-branch"
    ELSE IF config[1].branch # "" /\ config[1].branch \notin { "main", "master" }
    THEN "git clone --depth=1 --single-branch --branch"
    ELSE "git clone --depth=1 --single-branch"

\* curl has exited: _check_repo_exists returns, and clone_repo raises
\* ValueError or starts git clone.
CheckRepoExists ==
    /\ pc = "curl"
    /\ awaited = "pending"
    /\ \E returncode \in ReturnCodes, status \in StatusLines :
       \E exited \in { Exited(returncode, status) } :
          IF RepoNotFound(returncode, status)
          THEN pc' = "raised" /\ awaited' = "ValueError" /\ procs' = exited
          ELSE /\ pc' = "clone"
               /\ awaited' = awaited
               /\ procs' = Append(exited, Proc(CloneCmd))
    /\ UNCHANGED << scan_vars, config, clock >>

\* if proc.returncode != 0: raise RuntimeError
Failed_Never(returncode) == FALSE

Failed(returncode) == returncode # 0

\* _run_git_command: the git command has exited; clone_repo raises
\* RuntimeError, starts git checkout after the clone of a commit, or returns.
RunGitCommand ==
    /\ pc \in { "clone", "checkout" }
    /\ awaited = "pending"
    /\ \E returncode \in ReturnCodes :
       \E exited \in { Exited(returncode, "") } :
          IF Failed(returncode)
          THEN pc' = "raised" /\ awaited' = "RuntimeError" /\ procs' = exited
          ELSE IF pc = "clone" /\ config[1].commit # ""
          THEN /\ pc' = "checkout"
               /\ awaited' = awaited
               /\ procs' = Append(exited, Proc("git checkout"))
          ELSE pc' = "returned" /\ awaited' = "returned" /\ procs' = exited
    /\ UNCHANGED << scan_vars, config, clock >>

NextAsync ==
    \/ PathNotFound
    \/ IngestSingleFile
    \/ IngestDirectory
    \/ ProcessItem
    \/ Return
    \/ ReturnRoot
    \/ Awaited
    \/ CloneRepo
    \/ CheckRepoExists
    \/ RunGitCommand
    \/ Tick
    \/ TimedOut

SpecAsync == InitAsync /\ [][NextAsync]_vars

\* The include pattern lists the Pattern Filter is asked about.
IncludeLists ==
    { <<>>, <<"*.py">>, <<"lib/sub">>, <<"*.py", "lib/sub">>, <<"lib/sub", "*.py">>,
      <<"">>, <<"", "*.py">> }

\* _process_item about to test an entry against the include patterns.
InitFilter ==
    /\ fs \in { Tree(1, Sub, Lib), Tree(1, Lib \o <<"a.py">>, Repo) }
    /\ query \in { Query(include_patterns, <<>>, MAX_FILE_SIZE) :
                      include_patterns \in IncludeLists }
    /\ pc = "filter"
    /\ stack = <<>>
    /\ seen_paths = {}
    /\ stats = [total_files |-> 0, total_size |-> 0]
    /\ nodes = "None"
    /\ entered = <<>>
    /\ opened = {}
    /\ charged = <<>>
    /\ skipped = {}
    /\ previous = <<>>
    /\ output = <<>>
    /\ Unwrapped

\* The test of line 497 on one path: what _should_include returns, and
\* whether _process_item leaves the entry out because of it.
Decide ==
    /\ pc = "filter"
    /\ \E path \in DOMAIN fs :
          output' = << [path |-> path,
                        included |-> _should_include(path, query.local_path,
                                                     query.include_patterns),
                        left_out |-> IncludeSkip(path, query.local_path,
                                                 query.include_patterns)] >>
    /\ UNCHANGED << fs, query, pc, stack, seen_paths, stats, nodes, entered, opened,
                    charged, skipped, previous >>
    /\ UNCHANGED wrapper_vars

SpecFilter == InitFilter /\ [][Decide]_vars

\* The scans and single-file ingests of the trees with unreadable entries.
InitFaults ==
    /\ fs \in FaultyFileSystems
    /\ query \in { Query(<<>>, <<>>, MAX_FILE_SIZE), Query(<<"*.py">>, <<>>, MAX_FILE_SIZE),
                   BlobQuery(<<"lib", "a.py">>, MAX_FILE_SIZE), BlobQuery(<<"etc">>, 1) }
    /\ pc = "start"
    /\ stack = <<>>
    /\ seen_paths = {}
    /\ stats = [total_files |-> 0, total_size |-> 0]
    /\ nodes = "None"
    /\ entered = <<>>
    /\ opened = {}
    /\ charged = <<>>
    /\ skipped = {}
    /\ previous = <<>>
    /\ output = <<>>
    /\ Unwrapped

SpecFaults == InitFaults /\ [][Next]_vars

SpecTwice == InitTwice /\ [][NextTwice]_vars

\* The walk is one sequential thread that runs whenever it can.
FairSpec == Spec /\ WF_vars(Next)

TypeOK ==
    /\ pc \in {"start", "scan", "done", "error"}
    /\ stats.total_files \in Nat
    /\ stats.total_size \in Nat
    /\ (pc = "scan") = (stack # <<>>)

-----------------------------------------------------------------------------
(* Trees                                                                   *)

\* Every node of a tree, the tree's own node included.
RECURSIVE SubNodes(_)
SubNodes(node) ==
    IF node.type = "file" THEN {node}
    ELSE {node} \cup UNION { SubNodes(node.children[i]) : i \in 1..Len(node.children) }

\* The number of file nodes of a tree, a node that occurs twice counted twice.
RECURSIVE CountFiles(_)
CountFiles(node) ==
    IF node.type = "file" THEN 1
    ELSE LET below[i \in 0..Len(node.children)] ==
                 IF i = 0 THEN 0 ELSE below[i - 1] + CountFiles(node.children[i])
         IN  below[Len(node.children)]

SumSizes(children) ==
    LET sum[i \in 0..Len(children)] ==
            IF i = 0 THEN 0 ELSE sum[i - 1] + children[i].size
    IN  sum[Len(children)]

\* _ingest_directory has returned: nodes is the tree of the scan
Done == pc = "done" /\ query.type # "blob"

\* The directory nodes built so far: those of the returned tree, and while the
\* walk runs those under construction in the active calls.
Results == IF Done THEN {nodes} ELSE { stack[i].result : i \in 1..Len(stack) }
Built == UNION { SubNodes(r) : r \in Results }
BuiltDirs == { n \in Built : n.type = "directory" }

\* The entries of the filesystem at or below the scan root.
InRoot(path) == IsUnder(path, Resolve(query.local_path))
Links == { p \in DOMAIN fs : fs[p].kind = "link" }
Refusals(why) == { s \in skipped : s.why = why }

-----------------------------------------------------------------------------
(* C1: a scan terminates, also on a link to an ancestor directory: no       *)
(* resolved directory is enumerated twice, and a link whose target the walk *)
(* has already visited when it comes to the link, as it has every directory *)
(* it came through, gets no node.                                           *)

NoRescan ==
    \A i, j \in 1..Len(entered) : entered[i] = entered[j] => i = j

\* the links refused because their target was visited already
VisitedLinks == { s.item : s \in Refusals("visited_symlink") }

\* a link in the root whose target is a directory above it
AncestorLinks ==
    { l \in Links : /\ InRoot(l)
                    /\ fs[l].target \in DOMAIN fs
                    /\ fs[fs[l].target].kind = "dir"
                    /\ IsUnder(l, fs[l].target) }

C1_CycleSafe ==
    /\ <>(pc \in {"done", "error"})
    /\ [](NoRescan /\ \A n \in Built : n.path \notin VisitedLinks)

\* a link to an ancestor was refused as visited and the scan is over
C1_Witness ==
    /\ Done
    /\ VisitedLinks \cap AncestorLinks # {}

\* C1 as claimed: no link to an ancestor directory ever gets a node.
C1_Original ==
    /\ <>(pc \in {"done", "error"})
    /\ [](NoRescan /\ \A n \in Built : n.path \notin AncestorLinks)

-----------------------------------------------------------------------------
(* C2: in a directory scan, a link whose resolved target is neither the     *)
(* resolved scan root nor below it is never followed: nothing at or below   *)
(* its target is enumerated, read or counted, and the link gets no node.    *)

UnsafeLinks == { l \in Links : InRoot(l) /\ ~InRoot(Resolve(l)) }

Touched == { entered[i] : i \in 1..Len(entered) } \cup opened
               \cup { charged[i] : i \in 1..Len(charged) }

C2_EscapePrevention ==
    query.type # "blob" =>
        \A l \in UnsafeLinks :
            /\ \A p \in Touched : ~IsUnder(p, fs[l].target)
            /\ \A n \in Built : n.path # l

\* the walk came to an escaping link, under an include pattern too, and is over
C2_Witness ==
    /\ Done
    /\ query.include_patterns # <<>>
    /\ \E s \in Refusals("unsafe_symlink") : s.item \in UnsafeLinks

-----------------------------------------------------------------------------
(* The order of children that _sort_children documents: README.md files,   *)
(* other files, hidden files, directories, hidden directories, and by name  *)
(* within each group.                                                       *)

Group(node) ==
    IF node.type = "file"
    THEN IF Lower(node.name) = "readme.md" THEN 1
         ELSE IF ~StartsWithDot(node.name) THEN 2 ELSE 3
    ELSE IF ~StartsWithDot(node.name) THEN 4 ELSE 5

Ordered(children) ==
    \A i, j \in 1..Len(children) :
        i < j => \/ Group(children[i]) < Group(children[j])
                 \/ /\ Group(children[i]) = Group(children[j])
                    /\ ~NameLess(children[j].name, children[i].name)

Aggregated(dir) ==
    /\ dir.size = SumSizes(dir.children)
    /\ dir.file_count = CountFiles(dir)

-----------------------------------------------------------------------------
(* C3: when the file-count ceiling was hit, the returned tree has at most  *)
(* MAX_FILES file nodes and is well formed: in every directory node the    *)
(* children are in order and the aggregates agree with the children.       *)

CeilingHit == Refusals("MaxFilesReachedError") # {}

C3_CeilingWellFormed ==
    (Done /\ CeilingHit) =>
        /\ CountFiles(nodes) <= MAX_FILES
        /\ \A d \in BuiltDirs : Ordered(d.children) /\ Aggregated(d)

-----------------------------------------------------------------------------
(* C4: stats["total_files"] never exceeds MAX_FILES.                        *)

C4_FileCountWithinCeiling == stats.total_files <= MAX_FILES

-----------------------------------------------------------------------------
(* C5: stats["total_size"] never exceeds MAX_TOTAL_SIZE_BYTES, for regular  *)
(* files and for files reached through links alike.                         *)

C5_TotalSizeWithinCeiling == stats.total_size <= MAX_TOTAL_SIZE_BYTES

\* the total stands at the ceiling, with a file counted through a link, and
\* both a regular file and a link to a file have been refused for size
C5_Witness ==
    /\ stats.total_size = MAX_TOTAL_SIZE_BYTES
    /\ \E n \in Built : n.type = "file" /\ n.path \in Links
    /\ \E s \in Refusals("MaxFileSizeReachedError") : s.item \in Links
    /\ \E s \in Refusals("MaxFileSizeReachedError") : s.item \notin Links

-----------------------------------------------------------------------------
(* C6: in every directory node, size is the sum of the children's sizes and *)
(* file_count the number of file nodes below it, whatever was admitted,     *)
(* skipped, followed or cut short.                                          *)

C6_Aggregates == \A d \in BuiltDirs : Aggregated(d)

\* a returned tree with a followed link to a directory that holds a file, after
\* a pattern skip, a file-count stop and a permission stop
C6_Witness ==
    /\ Done
    /\ CeilingHit
    /\ Refusals("excluded") # {}
    /\ \E i \in 1..Len(entered) : fs[entered[i]].denied
    /\ \E d \in BuiltDirs : d.path \in Links /\ d.file_count > 0

-----------------------------------------------------------------------------
(* C7: in every directory node of the returned tree the children are in    *)
(* the documented order, sorted by name within each of the five groups,     *)
(* the README.md group included.                                            *)

C7_ChildOrder == Done => \A d \in BuiltDirs : Ordered(d.children)

-----------------------------------------------------------------------------
(* C8: two scans of the same filesystem with the same query return the      *)
(* same tree, whatever order the entries of each directory are enumerated   *)
(* in.                                                                      *)

C8_Deterministic == (Done /\ previous # <<>>) => nodes = previous[1]

-----------------------------------------------------------------------------
(* C9: an entry whose path relative to the scan root matches an exclude     *)
(* pattern, or that is not below the scan root, is never enumerated, never  *)
(* counted in the stats and has no node.                                    *)

Excluded(path) == _should_exclude(path, query.local_path, query.ignore_patterns)

C9_ExcludedUntouched ==
    \A p \in DOMAIN fs :
        Excluded(p) =>
            /\ \A i \in 1..Len(entered) : entered[i] # p
            /\ \A i \in 1..Len(charged) : charged[i] # p
            /\ \A n \in Built : n.path # p

-----------------------------------------------------------------------------
(* C10: under include patterns no directory is pruned for not matching: a   *)
(* file that matches an include pattern has a file node in the returned     *)
(* tree, unless it or a directory above it is excluded or was refused by a  *)
(* ceiling, the cycle guard or a permission error.                          *)

\* the directories strictly between the scan root and path, and path itself
Chain(path) ==
    { SubSeq(path, 1, n) : n \in Len(Resolve(query.local_path)) + 1..Len(path) }

Guards ==
    { "depth", "max_files", "max_size", "visited", "visited_symlink",
      "unsafe_symlink", "MaxFileSizeReachedError", "MaxFilesReachedError" }

Refused(path) ==
    \/ \E p \in Chain(path) : Excluded(p) \/ fs[p].denied
    \/ \E s \in skipped : s.why \in Guards /\ s.item \in Chain(path)
    \/ CeilingHit

Matching ==
    { f \in DOMAIN fs : /\ fs[f].kind = "file"
                        /\ InRoot(f)
                        /\ _should_include(f, query.local_path, query.include_patterns) }

C10_NoDirectoryPruning ==
    (Done /\ query.include_patterns # <<>>) =>
        \A f \in Matching :
            ~Refused(f) => \E n \in Built : n.type = "file" /\ n.path = f

\* a matching file two directories down, neither of which matches, is in the tree
C10_Witness ==
    /\ Done
    /\ query.include_patterns # <<>>
    /\ \E f \in Matching :
          /\ ~Refused(f)
          /\ Len(f) = Len(query.local_path) + 3
          /\ \A p \in Chain(Front(f)) :
                ~_should_include(p, query.local_path, query.include_patterns)
          /\ \E n \in Built : n.type = "file" /\ n.path = f

-----------------------------------------------------------------------------
(* C11: the returned tree never holds two nodes, files or directories,      *)
(* with the same resolved path.                                             *)

\* The nodes of a tree in pre-order, a node that occurs twice listed twice.
RECURSIVE Preorder(_)
Preorder(node) ==
    IF node.type = "file" THEN <<node>>
    ELSE LET below[i \in 0..Len(node.children)] ==
                 IF i = 0 THEN <<>> ELSE below[i - 1] \o Preorder(node.children[i])
         IN  <<node>> \o below[Len(node.children)]

C11_CanonicalOnce ==
    Done => \E listed \in { Preorder(nodes) } :
               \A i, j \in 1..Len(listed) :
                   Resolve(listed[i].path) = Resolve(listed[j].path) => i = j

-----------------------------------------------------------------------------
(* C12: a turn of the loop that admits a safe link to a regular file counts *)
(* it as one file: total_files grows by 1, total_size by the file's size,   *)
(* and the directory node gains one file node, its size and file_count      *)
(* raised by that one file.                                                 *)

\* the entries of the innermost call that are safe links to regular files
FileLinks ==
    { name \in Top.todo :
        \E item \in { Top.path \o <<name>> } :
            /\ is_symlink(item)
            /\ is_file(item)
            /\ _is_safe_symlink(item, query.local_path) }

\* this step processed the link name in the innermost call and admitted it
AdmitsLink(name) ==
    /\ pc = "scan" /\ pc' = "scan"
    /\ Len(stack') = Len(stack)
    /\ Top'.todo \in { Top.todo \ {name}, {} }
    /\ Top.todo \ {name} # {} => Top'.todo # Top.todo
    /\ Len(Top'.result.children) > Len(Top.result.children)
    /\ Top'.result.children[Len(Top.result.children) + 1].name = name

C12_LinkCountedOnce ==
    [][ \A name \in (IF pc = "scan" THEN FileLinks ELSE {}) :
          AdmitsLink(name) =>
            \E size \in { fs[Resolve(Top.path \o <<name>>)].size } :
              /\ stats'.total_files = stats.total_files + 1
              /\ stats'.total_size = stats.total_size + size
              /\ Len(Top'.result.children) = Len(Top.result.children) + 1
              /\ Top'.result.size = Top.result.size + size
              /\ Top'.result.file_count = Top.result.file_count + 1 ]_vars

-----------------------------------------------------------------------------
(* C13: in the returned tree the path of every child is the path of its     *)
(* parent joined with the child's name, below a followed link to a          *)
(* directory too.                                                           *)

C13_LogicalPaths ==
    Done => \A d \in BuiltDirs :
               \A i \in 1..Len(d.children) :
                   d.children[i].path = d.path \o <<d.children[i].name>>

-----------------------------------------------------------------------------
(* C14: no breach of a limit aborts an ingest in directory mode: for a root *)
(* that is a directory the ingest never ends in an error, and it ends with  *)
(* a directory node and the three strings made from it.                     *)

Produced == Done /\ nodes.type = "directory" /\ Len(output) = 3

-----------------------------------------------------------------------------
(* C15: the content string of a directory scan is one block (delimiter,     *)
(* "File: " and the path relative to the root, delimiter, the text, a blank *)
(* line) for every file node in pre-order that is not marked non-text and   *)
(* is not larger than max_file_size, and nothing else.                      *)

HasBlock(node) ==
    /\ node.type = "file"
    /\ node.content # "[Non-text file]"
    /\ node.size <= query.max_file_size

Block(node) ==
    << <<Separator>>,
       <<"File: ">> \o PathStr(RelativeTo(node.path, query.local_path)),
       <<Separator>>, <<node.content>>, <<>> >>

Blocks(listed) ==
    LET upto[i \in 0..Len(listed)] ==
            IF i = 0 THEN <<>>
            ELSE upto[i - 1] \o (IF HasBlock(listed[i]) THEN Block(listed[i]) ELSE <<>>)
    IN  upto[Len(listed)]

C15_ContentBlocks == Done => output[3] = Blocks(Preorder(nodes))

-----------------------------------------------------------------------------
(* C16: single-file mode ends in an error with no strings when the target   *)
(* is not a regular file or is not text, returns the three strings only for *)
(* a regular text file, and never runs the directory walk.                  *)

TextFile(path) == is_file(path) /\ fs[Resolve(path)].text

C16_SingleFile ==
    query.type = "blob" =>
        /\ pc # "scan" /\ stack = <<>> /\ entered = <<>> /\ nodes = "None"
        /\ pc = "error" => output = <<>>
        /\ pc = "done" => Len(output) = 3 /\ TextFile(QueryPath)
        /\ (pc \in {"done", "error"} /\ ~TextFile(QueryPath)) => pc = "error"

\* single-file mode has refused a regular file that is not text
C16_Witness ==
    /\ query.type = "blob"
    /\ pc = "error"
    /\ output = <<>>
    /\ is_file(QueryPath)
    /\ ~fs[Resolve(QueryPath)].text

-----------------------------------------------------------------------------
(* C17: once the file-count ceiling has refused a file or a directory, the  *)
(* rest of the scan adds no file node and enters no directory, the file     *)
(* nodes built so far stay, and every directory that was entered is in the  *)
(* returned tree (under include patterns, every one that holds a file).     *)

CeilingRefused == Refusals("MaxFilesReachedError") \cup Refusals("max_files") # {}

FileNodes == { n \in Built : n.type = "file" }

\* the file nodes of all the directory nodes under construction or returned
FileNodeCount ==
    IF Done THEN CountFiles(nodes)
    ELSE LET upto[i \in 0..Len(stack)] ==
                 IF i = 0 THEN 0 ELSE upto[i - 1] + CountFiles(stack[i].result)
         IN  upto[Len(stack)]

EnteredPresent ==
    \A i \in 1..Len(entered) :
        \E d \in BuiltDirs : Resolve(d.path) = entered[i]

C17_CeilingIsFinal ==
    /\ [][ (CeilingRefused /\ pc = "scan") =>
             /\ entered' = entered
             /\ FileNodeCount' = FileNodeCount
             /\ FileNodes \subseteq FileNodes' ]_vars
    /\ []((Done /\ CeilingRefused /\ query.include_patterns = <<>>) => EnteredPresent)

\* a returned tree with MAX_FILES file nodes, after the ceiling refused a file
\* in one directory and then a directory and another file elsewhere
C17_Witness ==
    /\ Done
    /\ CountFiles(nodes) = MAX_FILES
    /\ Refusals("max_files") # {}
    /\ \E s, t \in Refusals("MaxFilesReachedError") : Front(s.item) # Front(t.item)

-----------------------------------------------------------------------------
(* C18: a file whose size would take total_size above MAX_TOTAL_SIZE_BYTES  *)
(* is refused with stats, children and aggregates of the directory as they  *)
(* were, and the loop goes on with the remaining entries; a later file that *)
(* fits is admitted.                                                        *)

\* this step was the turn of the loop of the innermost call for entry name
Processed(name) ==
    \/ Top.todo = {name}
    \/ Len(stack') = Len(stack) /\ Top'.todo = Top.todo \ {name}

\* an entry that _process_item hands to _process_file or, for a link, to
\* _process_symlink and its file branch
CandidateFile(item) ==
    /\ ~Excluded(item)
    /\ is_file(item)
    /\ ~IncludeSkip(item, query.local_path, query.include_patterns)
    /\ is_symlink(item) => _is_safe_symlink(item, query.local_path)

TooBig(item) == stats.total_size + fs[Resolve(item)].size > MAX_TOTAL_SIZE_BYTES

SizeRefused(name) ==
    /\ [item |-> Top.path \o <<name>>, why |-> "MaxFileSizeReachedError"] \in skipped'
    /\ stats' = stats
    /\ stack' = [stack EXCEPT ![Len(stack)].todo = @ \ {name}]
    /\ pc' = "scan"

FileAdmitted(name) ==
    /\ Len(stack') = Len(stack)
    /\ Len(Top'.result.children) = Len(Top.result.children) + 1
    /\ Top'.result.children[Len(Top'.result.children)].name = name
    /\ stats'.total_size = stats.total_size + fs[Top.path \o <<name>>].size

C18_SizeRefusalFrame ==
    [][ \A name \in (IF pc = "scan" THEN Top.todo ELSE {}) :
          \E item \in { Top.path \o <<name>> } :
            (Processed(name) /\ CandidateFile(item)) =>
               /\ TooBig(item) => SizeRefused(name)
               /\ (~TooBig(item) /\ ~is_symlink(item)
                      /\ stats.total_files < MAX_FILES) => FileAdmitted(name) ]_vars

\* a file has just been refused for size, and an entry of the same directory
\* that is still to come is a regular file small enough to be admitted
C18_Witness ==
    /\ pc = "scan"
    /\ stats.total_files < MAX_FILES
    /\ \E s \in Refusals("MaxFileSizeReachedError") :
          /\ Front(s.item) = Top.path
          /\ \E name \in Top.todo :
                \E item \in { Top.path \o <<name>> } :
                   /\ CandidateFile(item) /\ ~is_symlink(item) /\ ~TooBig(item)
                   /\ fs[item].size > 0
                   /\ fs[item].size < fs[Resolve(s.item)].size

-----------------------------------------------------------------------------
(* C19: no directory more than MAX_DIRECTORY_DEPTH levels below the scan    *)
(* root is enumerated or appears in the tree, a followed directory link     *)
(* counting as one level; at most MAX_DIRECTORY_DEPTH + 1 calls of          *)
(* _scan_directory are active; a directory refused for depth is skipped     *)
(* without an error and is not added to seen_paths.                         *)

RECURSIVE DirLevels(_)
\* the number of directory levels below node in the tree
DirLevels(node) ==
    LET below == { i \in 1..Len(node.children) : node.children[i].type = "directory" }
        levels == { DirLevels(node.children[i]) : i \in below }
    IN  IF below = {} THEN 0
        ELSE 1 + CHOOSE m \in levels : \A n \in levels : n <= m

DepthRefusedNow == { s \in skipped' \ skipped : s.why = "depth" }

C19_DepthCeiling ==
    /\ [](pc = "scan" =>
            /\ Len(stack) <= MAX_DIRECTORY_DEPTH + 1
            /\ \A i \in 1..Len(stack) :
                  /\ stack[i].depth = i - 1
                  /\ DirLevels(stack[i].result) <= MAX_DIRECTORY_DEPTH - stack[i].depth)
    /\ [](Done => DirLevels(nodes) <= MAX_DIRECTORY_DEPTH)
    /\ [][ (pc = "scan" /\ DepthRefusedNow # {}) =>
              /\ pc' = "scan"
              /\ seen_paths' = seen_paths
              /\ entered' = entered
              /\ Len(stack') = Len(stack)
              /\ Top'.result = Top.result ]_vars

\* the tree reaches the deepest level allowed, and a directory one level
\* further down was refused and is not among the visited paths
C19_Witness ==
    /\ Done
    /\ DirLevels(nodes) = MAX_DIRECTORY_DEPTH
    /\ \E s \in Refusals("depth") :
          /\ Len(RelativeTo(s.item, query.local_path)) = MAX_DIRECTORY_DEPTH + 1
          /\ Resolve(s.item) \notin seen_paths

-----------------------------------------------------------------------------
(* C20: under a non-empty include pattern set a directory node has          *)
(* ignore_content = TRUE exactly when one of its own entries that the scan   *)
(* visited is a non-excluded file matching no include pattern; such an       *)
(* entry gets no node, leaves the stats and the aggregates alone and the     *)
(* loop goes on with its siblings.                                           *)

\* a file entry that passes the ignore patterns and matches no include pattern
Unmatched(item) ==
    /\ ~Excluded(item)
    /\ is_file(item)
    /\ ~_should_include(item, query.local_path, query.include_patterns)

\* the entries of the directory of node d that the include test has turned away
TurnedAway(d) == { s \in Refusals("not_included") : Front(s.item) = Resolve(d.path) }

IncludeSkipped(name) ==
    /\ [item |-> Top.path \o <<name>>, why |-> "not_included"] \in skipped'
    /\ stats' = stats
    /\ stack' = [stack EXCEPT ![Len(stack)].todo = @ \ {name},
                              ![Len(stack)].result.ignore_content = TRUE]
    /\ pc' = "scan"

\* a directory scan under include patterns
Including == query.type # "blob" /\ query.include_patterns # <<>>

C20_IgnoreContent ==
    /\ [](Including => \A d \in BuiltDirs : d.ignore_content <=> TurnedAway(d) # {})
    /\ [](Including => \A s \in Refusals("not_included") : Unmatched(s.item))
    /\ [][ \A name \in (IF Including /\ pc = "scan" THEN Top.todo ELSE {}) :
             \E item \in { Top.path \o <<name>> } :
                (Processed(name) /\ Unmatched(item)) => IncludeSkipped(name) ]_vars

\* the returned tree has a directory that turned a file away and one that did
\* not, and a sibling of the file turned away has a node
C20_Witness ==
    /\ Done
    /\ query.include_patterns # <<>>
    /\ \E d, e \in BuiltDirs :
          /\ d.ignore_content /\ ~e.ignore_content
          /\ \E s \in TurnedAway(d) :
                \E i \in 1..Len(d.children) :
                    /\ d.children[i].type = "file"
                    /\ Front(d.children[i].path) = Front(s.item)

-----------------------------------------------------------------------------
(* C21: a scanned subdirectory, plain or behind a link, is attached to its  *)
(* parent and added to the parent's size, file_count and dir_count exactly   *)
(* when its scan returned a node and the include patterns are empty or its   *)
(* file_count is above 0; under include patterns no attached directory has   *)
(* file_count 0.                                                             *)

\* the innermost call is about to return its node to its caller
Returning == pc = "scan" /\ Len(stack) > 1 /\ Finished(Top)

\* the test of lines 519 and 395 on the node the innermost call returns
Kept == query.include_patterns = <<>> \/ Top.result.file_count > 0

\* parent and after are the caller's node before and after the step
AttachedTo(parent, after) ==
    \E n \in { Len(after.children) } :
        /\ n = Len(parent.children) + 1
        /\ SubSeq(after.children, 1, n - 1) = parent.children
        /\ after.children[n].type = "directory"
        /\ after.children[n].children = _sort_children(Top.result.children)
        /\ after.children[n].name = Last(Top.item)
        /\ after.children[n].path = Top.item
        /\ after.size = parent.size + Top.result.size
        /\ after.file_count = parent.file_count + Top.result.file_count
        /\ after.dir_count = parent.dir_count + 1 + Top.result.dir_count

\* the directory children of a node
DirChildren(node) ==
    { node.children[i] : i \in { j \in 1..Len(node.children) :
                                    node.children[j].type = "directory" } }

C21_AttachRule ==
    /\ [][ Returning =>
             \E parent \in { stack[Len(stack) - 1].result } :
             \E after \in { stack'[Len(stack) - 1].result } :
                /\ Kept => AttachedTo(parent, after)
                /\ ~Kept => after = parent ]_vars
    /\ [][ (pc = "scan" /\ ~Returning /\ pc' = "scan") =>
             \A i \in 1..Len(stack) :
                DirChildren(stack'[i].result) = DirChildren(stack[i].result) ]_vars
    /\ [](Including => \A d \in BuiltDirs : \A c \in DirChildren(d) : c.file_count > 0)

\* under include patterns the scan entered a directory that is not in the
\* returned tree, next to one that is, and one of them was reached by a link
C21_Witness ==
    /\ Done
    /\ Including
    /\ \E i \in 1..Len(entered) : \A d \in BuiltDirs : Resolve(d.path) # entered[i]
    /\ \E d \in BuiltDirs : \E c \in DirChildren(d) : is_symlink(c.path)

-----------------------------------------------------------------------------
(* C22: below its heading the tree diagram has one line per node of the     *)
(* tree, in pre-order, files without a content block included; a directory   *)
(* name ends in "/", the last child of a directory has the connector         *)
(* "+-- " and every other child "|-- ", and a line carries, for each         *)
(* ancestor, four spaces where the ancestor is a last child and "|   "       *)
(* where it is not.                                                          *)

\* the line of a node: last says, from the root down to the node itself,
\* which of them is the last child of its directory
DiagramLine(node, last) ==
    [ i \in 1..(Len(last) - 1) |-> IF last[i] THEN "    " ELSE "|   " ]
        \o << IF last[Len(last)] THEN "+-- " ELSE "|-- ", node.name >>
        \o (IF node.type = "directory" THEN <<"/">> ELSE <<>>)

RECURSIVE Diagram(_, _)
Diagram(node, last) ==
    IF node.type = "file" THEN << DiagramLine(node, last) >>
    ELSE LET n == Len(node.children)
             below[i \in 0..n] ==
                 IF i = 0 THEN <<>>
                 ELSE below[i - 1] \o Diagram(node.children[i], Append(last, i = n))
         IN  << DiagramLine(node, last) >> \o below[n]

C22_TreeDiagram ==
    Done => \E tree \in { Tail(output[2]) } :
            \E listed \in { Preorder(nodes) } :
               /\ output[2][1] = <<"Directory structure:">>
               /\ tree = Diagram(nodes, <<TRUE>>)
               /\ Len(tree) = Len(listed)
               /\ \A i \in 1..Len(listed) :
                     \E line \in { tree[i] } :
                        IF listed[i].type = "directory"
                        THEN /\ line[Len(line)] = "/"
                             /\ line[Len(line) - 1] = listed[i].name
                        ELSE line[Len(line)] = listed[i].name

\* the diagram shows a file without a content block, and a directory that is
\* not the last child of its parent has a line below it
C22_Witness ==
    /\ Done
    /\ \E n \in Built : n.type = "file" /\ ~HasBlock(n)
    /\ \E i \in 1..Len(output[2]) :
          \E line \in { output[2][i] } :
             /\ Len(line) > 3
             /\ line[2] = "|   "

-----------------------------------------------------------------------------
(* C23: the summary has a "Commit:" line exactly when the query has a       *)
(* non-empty commit, a "Branch:" line exactly when it has no commit and a    *)
(* non-empty branch other than main and master, never both, and a            *)
(* "Subpath:" line exactly when the subpath is not "/".                      *)

\* the lines of the summary that begin with label
SummaryLines(label) == { i \in 1..Len(output[1]) : output[1][i][1] = label }

HasCommit == "commit" \in DOMAIN query /\ query.commit # ""
HasBranch ==
    /\ "branch" \in DOMAIN query
    /\ query.branch # "" /\ query.branch # "main" /\ query.branch # "master"

C23_SummaryLines ==
    pc = "summarised" =>
        /\ SummaryLines("Commit: ") # {} <=> HasCommit
        /\ SummaryLines("Branch: ") # {} <=> (~HasCommit /\ HasBranch)
        /\ SummaryLines("Commit: ") = {} \/ SummaryLines("Branch: ") = {}
        /\ SummaryLines("Subpath: ") # {} <=> query.subpath # <<>>
        /\ \A i \in SummaryLines("Commit: ") : output[1][i] = <<"Commit: ", query.commit>>
        /\ \A i \in SummaryLines("Branch: ") : output[1][i] = <<"Branch: ", query.branch>>

\* a query with a commit and with a branch that would be shown without it
C23_Witness ==
    /\ pc = "summarised"
    /\ HasCommit /\ HasBranch
    /\ query.subpath # <<>>
    /\ SummaryLines("Commit: ") # {}

-----------------------------------------------------------------------------
(* C24: a PermissionError raised while a directory's entries are enumerated *)
(* ends the enumeration of that directory only: its node keeps the children  *)
(* admitted before, with their aggregates, is sorted and returned to the     *)
(* parent, which goes on with its remaining entries; the scan does not fail. *)
(* C24_PermissionErrorIsLocal is the claim without the order of the          *)
(* children, which _sort_children does not establish for the README files.   *)

\* the entry name of the innermost call raises PermissionError when it is tested
Denied(name) ==
    \E item \in { Top.path \o <<name>> } : ~Excluded(item) /\ StatDenied(item)

\* the innermost call is about to return after PermissionError left its loop
ReturningDenied == Returning /\ Top.stop = "PermissionError"

\* the directories whose enumeration a PermissionError on an entry has ended
Stopped ==
    { d \in BuiltDirs :
        \E s \in Refusals("PermissionError") : Front(s.item) = Resolve(d.path) }

C24_PermissionErrorIsLocal ==
    /\ [](query.type # "blob" => pc # "error")
    /\ [][ \A name \in (IF pc = "scan" THEN Top.todo ELSE {}) :
             (Processed(name) /\ Denied(name)) =>
                /\ pc' = "scan"
                /\ stats' = stats
                /\ stack' = [stack EXCEPT ![Len(stack)].todo = {},
                                          ![Len(stack)].stop = "PermissionError"] ]_vars
    /\ [][ ReturningDenied =>
             \E parent \in { stack[Len(stack) - 1] } :
             \E after \in { stack'[Len(stack) - 1] } :
                /\ pc' = "scan"
                /\ Aggregated(Top.result)
                /\ Kept => AttachedTo(parent.result, after.result)
                /\ after.todo = parent.todo
                /\ after.stop = parent.stop ]_vars

C24_PermissionError ==
    /\ [](Done => \A d \in Stopped : Ordered(d.children))
    /\ C24_PermissionErrorIsLocal

-----------------------------------------------------------------------------
(* C25: an I/O failure on one file of a directory scan is recovered on the  *)
(* spot: the scan does not abort, the file keeps its node, and the content   *)
(* of the node is a placeholder that describes the error.                    *)
(* C25_NodeKept is the claim for the failures that _read_file_content        *)
(* meets; a failure that _is_text_file meets leaves "[Non-text file]".       *)

ErrorPlaceholders ==
    { "Error reading file: [Errno 13] Permission denied",
      "Error reading file: [Errno 5] Input/output error" }

\* the file nodes of the files that fail with io
FailedNodes(io) ==
    { n \in Built : n.type = "file" /\ fs[Resolve(n.path)].io = io }

C25_NodeKept ==
    /\ [](query.type # "blob" => pc # "error")
    /\ [][ \A name \in (IF pc = "scan" THEN Top.todo ELSE {}) :
             \E item \in { Top.path \o <<name>> } :
                (/\ Processed(name) /\ CandidateFile(item) /\ ~is_symlink(item)
                 /\ fs[item].io # "ok"
                 /\ ~TooBig(item) /\ stats.total_files < MAX_FILES) =>
                    FileAdmitted(name) ]_vars
    /\ [](\A n \in FailedNodes("read_fails") : n.content \in ErrorPlaceholders)

C25_IOFailureRecovered ==
    /\ C25_NodeKept
    /\ [](\A n \in FailedNodes("open_fails") : n.content \in ErrorPlaceholders)

-----------------------------------------------------------------------------
(* C26: the include decision is true for every path when the include        *)
(* pattern list is empty, and otherwise true exactly when the path's         *)
(* root-relative string matches at least one include pattern.                *)
(* As code: _should_include returns TRUE exactly when the root-relative      *)
(* string matches a pattern, hence FALSE for the empty list; _process_item   *)
(* asks it only for a file and only when the list is not empty, so that no   *)
(* file is left out under the empty list.                                    *)

\* the path of the decision is below the root and a pattern matches it
Matches(path) ==
    /\ IsUnder(path, query.local_path)
    /\ \E i \in 1..Len(query.include_patterns) :
          fnmatch(RelativeTo(path, query.local_path), query.include_patterns[i])

Decided == pc = "filter" /\ output # <<>>

C26_IncludeDecision ==
    Decided =>
        /\ output[1].included <=> Matches(output[1].path)
        /\ output[1].left_out <=>
              /\ is_file(output[1].path)
              /\ query.include_patterns # <<>>
              /\ ~Matches(output[1].path)

C26_Original ==
    Decided =>
        output[1].included <=>
            (query.include_patterns = <<>> \/ Matches(output[1].path))

\* a file asked about under the empty list: _should_include says FALSE and
\* the file is not left out
C26_Witness ==
    /\ Decided
    /\ query.include_patterns = <<>>
    /\ is_file(output[1].path)
    /\ ~output[1].included
    /\ ~output[1].left_out

-----------------------------------------------------------------------------
(* C27: a call of run_ingest_query through async_timeout(PROCESSING_TIMEOUT) *)
(* does not run for longer than PROCESSING_TIMEOUT seconds: when the          *)
(* traversal has not finished at the limit, the call ends with                *)
(* AsyncTimeoutError and does not return the three strings.                   *)

IngestCall == config = <<>> /\ awaited # "unwrapped"

C27_ProcessingTimeout ==
    (IngestCall /\ clock > PROCESSING_TIMEOUT) => awaited # "returned"

-----------------------------------------------------------------------------
(* C28: in clone_repo a step runs only after every earlier step succeeded:  *)
(* no process is started when url or local_path is empty, no git command     *)
(* when the existence check fails, ValueError being raised instead; git      *)
(* checkout is started only after the git clone of a commit exited with      *)
(* status 0, and a failed clone raises RuntimeError without a checkout.      *)

Git == { i \in 1..Len(procs) : procs[i].cmd # "curl" }
Succeeded(i) == procs[i].exited /\ procs[i].returncode = 0
NotFound(i) ==
    procs[i].exited /\ (procs[i].returncode # 0
                           \/ procs[i].stdout \in { "HTTP/1.1 404", "HTTP/2 404" })

C28_CloneSteps ==
    config # <<>> =>
        /\ (config[1].url = "" \/ config[1].local_path = "") =>
               procs = <<>> /\ awaited \in { "pending", "ValueError" }
        /\ \A i \in 1..Len(procs) : \A j \in 1..(i - 1) : Succeeded(j)
        /\ \A i \in 1..Len(procs) : (procs[i].cmd = "curl") = (i = 1)
        /\ (procs # <<>> /\ NotFound(1)) => Git = {} /\ awaited = "ValueError"
        /\ awaited = "ValueError" => Git = {}
        /\ \A i \in Git :
              /\ procs[i].cmd = "git checkout" =>
                    /\ config[1].commit # ""
                    /\ i = 3
                    /\ procs[2].cmd = "git clone --single-branch"
                    /\ Succeeded(2)
              /\ (procs[i].exited /\ procs[i].returncode # 0) =>
                    /\ awaited = "RuntimeError"
                    /\ i = Len(procs)
        /\ awaited = "returned" => \A i \in 1..Len(procs) : Succeeded(i)

\* the checkout of a commit is running after its clone has succeeded
C28_Witness ==
    /\ config # <<>>
    /\ Len(procs) = 3
    /\ procs[3].cmd = "git checkout"
    /\ ~procs[3].exited
    /\ awaited = "pending"

-----------------------------------------------------------------------------
(* C29: at the end of a directory scan in which MaxFilesReachedError was    *)
(* never raised for a file, stats["total_files"] is the root node's         *)
(* file_count and stats["total_size"] is the root node's size; and during   *)
(* any scan neither statistic ever decreases.                               *)

\* the scan is over and its root node has been returned
ScanReturned ==
    /\ query.type # "blob"
    /\ pc \in { "done", "error" }
    /\ entered # <<>>
NoFileCountRefusal == Refusals("MaxFilesReachedError") = {}
StatsAgree ==
    /\ stats.total_files = nodes.file_count
    /\ stats.total_size = nodes.size
StatsGrow ==
    /\ stats'.total_files >= stats.total_files
    /\ stats'.total_size >= stats.total_size

C29_StatsAgreeWithTree ==
    /\ [](ScanReturned /\ NoFileCountRefusal => StatsAgree)
    /\ [][pc = "scan" => StatsGrow]_vars

\* a scan has ended without a refusal by the file count, with files counted
\* in the root directory and in a directory below it
C29_Witness ==
    /\ ScanReturned
    /\ NoFileCountRefusal
    /\ StatsAgree
    /\ stats.total_files >= 2
    /\ \E i \in 1..Len(nodes.children) :
          /\ nodes.children[i].type = "directory"
          /\ nodes.children[i].file_count > 0
          /\ nodes.children[i].file_count < nodes.file_count

-----------------------------------------------------------------------------
(* C30: within one scan a canonical directory path is enumerated by at most *)
(* one call of _scan_directory: the path is in seen_paths before any entry  *)
(* of the directory is processed and never leaves it, so the tree holds at  *)
(* most one directory node per canonical directory, the node of the path    *)
(* that reached the directory first.                                        *)

\* The paths of the directory nodes of a tree, one per node, parents first.
RECURSIVE DirPaths(_)
DirPaths(node) ==
    IF node.type = "file" THEN <<>>
    ELSE LET below[i \in 0..Len(node.children)] ==
                 IF i = 0 THEN <<>> ELSE below[i - 1] \o DirPaths(node.children[i])
         IN  <<node.path>> \o below[Len(node.children)]

\* The directory nodes that exist: of the returned tree, or of the calls active
AllDirPaths ==
    IF Done THEN DirPaths(nodes)
    ELSE LET active[i \in 0..Len(stack)] ==
                 IF i = 0 THEN <<>> ELSE active[i - 1] \o DirPaths(stack[i].result)
         IN  active[Len(stack)]

OneNodePerDirectory ==
    \A i, j \in 1..Len(AllDirPaths) :
        Resolve(AllDirPaths[i]) = Resolve(AllDirPaths[j]) => i = j

MarkedBeforeListed ==
    /\ \A i \in 1..Len(entered) : entered[i] \in seen_paths
    /\ \A i \in 1..Len(stack) : Resolve(stack[i].path) \in seen_paths
    /\ \A i \in 1..Len(AllDirPaths) :
          \E j \in 1..Len(entered) : entered[j] = Resolve(AllDirPaths[i])

C30_OneScanPerDirectory ==
    /\ [](NoRescan /\ MarkedBeforeListed /\ OneNodePerDirectory)
    /\ [][seen_paths \subseteq seen_paths']_vars

\* a directory was reached through a link first and by its own path later:
\* the later call was refused and the one node of the directory is the link's
C30_Witness ==
    /\ Done
    /\ \E s \in Refusals("visited") :
          /\ fs[s.item].kind = "dir"
          /\ \E i \in 1..Len(AllDirPaths) :
                /\ AllDirPaths[i] \in Links
                /\ Resolve(AllDirPaths[i]) = s.item

====
